---- MODULE Spec2Model ----
EXTENDS Integers, Sequences, FiniteSets, TLC

(***************************************************************************)
(* Model of src/script.js: an in-browser batch image compressor.           *)
(*                                                                         *)
(* Strings the code takes apart (file names, MIME types) are sequences of  *)
(* one-character strings, so split / lastIndexOf / substring are computed. *)
(* Qualities are integers in units of 1/640: 1.0 = 640, 0.1 = 64 and the   *)
(* seven bisection midpoints are the multiples of 5 (= 1/128), all exact.  *)
(* targetSize = file.size * 0.10 is kept as file.size and compared as      *)
(* 10 * blob.size <= file.size.                                            *)
(***************************************************************************)

VARIABLES
    compressedFilesForZip,  \* script.js:6   entries pushed for the archive
    filesToProcess,         \* script.js:7
    filesProcessed,         \* script.js:8
    downloadDisplay,        \* downloadAllBtn.style.display
    previews,               \* children of previewsContainer
    inputFiles,             \* event.target.files of the last change event
    batch,                  \* number of change events handled (ghost)
    pipelines,              \* every processImage invocation launched so far
    ci                      \* one activation of compressImage, stepped

vars == <<compressedFilesForZip, filesToProcess, filesProcessed, downloadDisplay,
          previews, inputFiles, batch, pipelines, ci>>

batchVars == <<compressedFilesForZip, filesToProcess, filesProcessed,
               downloadDisplay, previews, inputFiles, batch, pipelines>>

-----------------------------------------------------------------------------
(* Strings *)

S_image == <<"i", "m", "a", "g", "e">>
S_text == <<"t", "e", "x", "t">>
S_jpeg == <<"j", "p", "e", "g">>
S_webp == <<"w", "e", "b", "p">>
S_png == <<"p", "n", "g">>
S_bmp == <<"b", "m", "p">>
S_plain == <<"p", "l", "a", "i", "n">>

Mime(top, sub) == top \o <<"/">> \o sub

ImageJpeg == Mime(S_image, S_jpeg)
ImageWebp == Mime(S_image, S_webp)
ImagePng == Mime(S_image, S_png)
ImageBmp == Mime(S_image, S_bmp)
TextPlain == Mime(S_text, S_plain)

\* the JavaScript value undefined (reading a property an object lacks)
Undefined == <<"undefined">>

\* String.prototype.startsWith
StartsWith(s, prefix) ==
    /\ Len(s) >= Len(prefix)
    /\ SubSeq(s, 1, Len(prefix)) = prefix

\* String.prototype.indexOf / lastIndexOf for one character, 0-based, -1 if absent
IndexOf(s, c) ==
    IF \E k \in 1..Len(s) : s[k] = c
    THEN (CHOOSE k \in 1..Len(s) : s[k] = c /\ \A j \in 1..(k - 1) : s[j] # c) - 1
    ELSE -1

LastIndexOf(s, c) ==
    IF \E k \in 1..Len(s) : s[k] = c
    THEN (CHOOSE k \in 1..Len(s) : s[k] = c /\ \A j \in (k + 1)..Len(s) : s[j] # c) - 1
    ELSE -1

\* String.prototype.substring(start, end): negative arguments count as 0
Substring(s, start, end) ==
    LET a == IF start < 0 THEN 0 ELSE IF start > Len(s) THEN Len(s) ELSE start
        b == IF end < 0 THEN 0 ELSE IF end > Len(s) THEN Len(s) ELSE end
        lo == IF a < b THEN a ELSE b
        hi == IF a < b THEN b ELSE a
    IN SubSeq(s, lo + 1, hi)

\* s.split('/')[1]: the text between the first and the second '/', or
\* undefined when s holds no '/'
SplitSlash1(s) ==
    LET first == IndexOf(s, "/")
        rest == SubSeq(s, first + 2, Len(s))
        second == IndexOf(rest, "/")
    IN IF first = -1 THEN Undefined
       ELSE IF second = -1 THEN rest
       ELSE SubSeq(rest, 1, second)

\* object property read: undefined when the object has no such property
Prop(obj, field) == IF field \in DOMAIN obj THEN obj[field] ELSE Undefined

-----------------------------------------------------------------------------
(* Program constants *)

QualityOne == 640
FallbackQuality == 64
Iterations == 7
MAX_DIMENSION == 1920

-----------------------------------------------------------------------------
(* Number arithmetic of resizeDimensions: IEEE 754 binary64, round to nearest even *)

MantissaBits == 53

\* naturals of any size as sequences of digits of LimbBits bits, least
\* significant digit first, without leading zeros
LimbBits == 15
Limb == 2 ^ LimbBits

Min(x, y) == IF x < y THEN x ELSE y

\* the number of bits of a digit
BitLen(x) == CHOOSE k \in 0..LimbBits : x < 2 ^ k /\ (k = 0 \/ x >= 2 ^ (k - 1))

\* the number of trailing zero bits of a digit x > 0
LowZeros(x) == CHOOSE k \in 0..(LimbBits - 1) : x % 2 ^ (k + 1) # 0 /\ x % 2 ^ k = 0

RECURSIVE BNFromInt(_)
BNFromInt(n) == IF n = 0 THEN <<>> ELSE <<n % Limb>> \o BNFromInt(n \div Limb)

RECURSIVE BNToInt(_)
BNToInt(a) == IF a = <<>> THEN 0 ELSE Head(a) + Limb * BNToInt(Tail(a))

RECURSIVE BNTrim(_)
BNTrim(a) ==
    IF a # <<>> /\ a[Len(a)] = 0 THEN BNTrim(SubSeq(a, 1, Len(a) - 1)) ELSE a

\* the number of bits of a
BNLen(a) == IF a = <<>> THEN 0 ELSE LimbBits * (Len(a) - 1) + BitLen(a[Len(a)])

RECURSIVE BNMulCarry(_, _, _)
BNMulCarry(a, n, carry) ==
    IF a = <<>> THEN BNFromInt(carry)
    ELSE LET t == Head(a) * n + carry
         IN <<t % Limb>> \o BNMulCarry(Tail(a), n, t \div Limb)

\* a times a natural n <= Limb
BNMulSmall(a, n) == BNTrim(BNMulCarry(a, n, 0))

\* a * 2^k
BNShl(a, k) ==
    IF a = <<>> THEN <<>>
    ELSE [i \in 1..(k \div LimbBits) |-> 0] \o BNMulSmall(a, 2 ^ (k % LimbBits))

RECURSIVE BNCmpSame(_, _)
BNCmpSame(a, b) ==
    IF a = <<>> THEN 0
    ELSE LET n == Len(a)
         IN IF a[n] < b[n] THEN -1
            ELSE IF a[n] > b[n] THEN 1
            ELSE BNCmpSame(SubSeq(a, 1, n - 1), SubSeq(b, 1, n - 1))

\* -1, 0 or 1 as a is below, equal to or above b
BNCmp(a, b) ==
    IF Len(a) < Len(b) THEN -1
    ELSE IF Len(a) > Len(b) THEN 1
    ELSE BNCmpSame(a, b)

RECURSIVE BNInc(_)
BNInc(a) ==
    IF a = <<>> THEN <<1>>
    ELSE IF Head(a) < Limb - 1 THEN <<Head(a) + 1>> \o Tail(a)
    ELSE <<0>> \o BNInc(Tail(a))

RECURSIVE BNSubBorrow(_, _, _)
BNSubBorrow(a, b, borrow) ==
    IF a = <<>> THEN <<>>
    ELSE LET t == Head(a) - (IF b = <<>> THEN 0 ELSE Head(b)) - borrow
         IN <<(t + Limb) % Limb>> \o
            BNSubBorrow(Tail(a), IF b = <<>> THEN <<>> ELSE Tail(b),
                        IF t < 0 THEN 1 ELSE 0)

\* a - b for a >= b
BNSub(a, b) == BNTrim(BNSubBorrow(a, b, 0))

\* |a - b|
BNDist(a, b) == IF BNCmp(a, b) >= 0 THEN BNSub(a, b) ELSE BNSub(b, a)

\* long division of the digits k..1 of a by a natural n <= Limb
RECURSIVE BNDivFrom(_, _, _, _)
BNDivFrom(a, n, k, rem) ==
    IF k = 0 THEN [q |-> <<>>, r |-> rem]
    ELSE LET t == Limb * rem + a[k]
             rest == BNDivFrom(a, n, k - 1, t % n)
         IN [q |-> Append(rest.q, t \div n), r |-> rest.r]

BNDivSmall(a, n) ==
    LET d == BNDivFrom(a, n, Len(a), 0) IN [q |-> BNTrim(d.q), r |-> d.r]

\* a without its k lowest bits, and whether one of those bits was set
BNShr(a, k) ==
    LET w == Min(k \div LimbBits, Len(a))
        d == BNDivSmall(SubSeq(a, w + 1, Len(a)), 2 ^ (k % LimbBits))
    IN [q |-> d.q, r |-> d.r # 0 \/ \E i \in 1..w : a[i] # 0]

\* the number of trailing zero bits of a > 0
BNLowZeros(a) ==
    LET i == CHOOSE j \in 1..Len(a) : a[j] # 0 /\ \A l \in 1..(j - 1) : a[l] = 0
    IN LimbBits * (i - 1) + LowZeros(a[i])

\* a Number m * 2^e, kept with m odd (or zero) so that equal values are equal
FNorm(f) ==
    IF f.m = <<>> THEN [m |-> <<>>, e |-> 0]
    ELSE [m |-> BNShr(f.m, BNLowZeros(f.m)).q, e |-> f.e + BNLowZeros(f.m)]

\* x * 2^e (plus a fraction of its last place when sticky) rounded to
\* MantissaBits bits, ties to even
FRound(x, e, sticky) ==
    IF BNLen(x) <= MantissaBits THEN FNorm([m |-> x, e |-> e])
    ELSE LET s == BNLen(x) - MantissaBits
             y == BNShr(x, s - 1)
             kept == BNShr(y.q, 1).q
             low == sticky \/ y.r
             up == y.q[1] % 2 = 1 /\ (low \/ kept[1] % 2 = 1)
         IN FNorm([m |-> IF up THEN BNInc(kept) ELSE kept, e |-> e + s])

FInt(n) == FNorm([m |-> BNFromInt(n), e |-> 0])

\* a / n for naturals a and 0 < n < Limb
FDivInt(a, n) ==
    LET k == MantissaBits + 1 + BNLen(BNFromInt(n))
        d == BNDivSmall(BNShl(BNFromInt(a), k), n)
    IN FRound(d.q, 0 - k, d.r # 0)

\* h * f for a natural h < Limb
FMulInt(h, f) == FRound(BNMulSmall(f.m, h), f.e, FALSE)

\* -1, 0 or 1 as the Number f is below, equal to or above the natural n
FCmpInt(f, n) ==
    IF f.e >= 0 THEN BNCmp(BNShl(f.m, f.e), BNFromInt(n))
    ELSE BNCmp(f.m, BNShl(BNFromInt(n), 0 - f.e))

\* the integer part of a Number (canvas.width = width keeps whole pixels)
FTrunc(f) ==
    IF f.e >= 0 THEN BNToInt(BNShl(f.m, f.e))
    ELSE BNToInt(BNShr(f.m, 0 - f.e).q)

\* resizeDimensions scaling both branches by max / width
resizeDimensions_byWidth(width, height, max) ==
    IF width > max \/ height > max
    THEN IF width > height
         THEN [width |-> FInt(max), height |-> FMulInt(height, FDivInt(max, width))]
         ELSE [width |-> FMulInt(width, FDivInt(max, width)), height |-> FInt(max)]
    ELSE [width |-> FInt(width), height |-> FInt(height)]

\* lines 146-157
resizeDimensions(width, height, max) ==
    IF width > max \/ height > max
    THEN IF width > height
         THEN [width |-> FInt(max), height |-> FMulInt(height, FDivInt(max, width))]
         ELSE [width |-> FMulInt(width, FDivInt(max, height)), height |-> FInt(max)]
    ELSE [width |-> FInt(width), height |-> FInt(height)]

-----------------------------------------------------------------------------
(* The canvas encoder (environment of compressImage) *)

\* Encoded byte size of an image at a quality.  img.base + img.slope*q/640 is
\* monotonically non-decreasing in q; img.amp > 0 adds a ripple of period 1/16
\* that makes the encoder non-monotone.
EncodeSize(img, q) ==
    img.base + ((img.slope * q) \div QualityOne) + img.amp * ((q \div 20) % 2)

Monotone(img) == img.amp = 0

\* canvas.toDataURL(mimeType, quality): a data URL naming the type and
\* carrying the encoded bytes
ToDataURL(img, mimeType, q) == [mime |-> mimeType, bytes |-> EncodeSize(img, q)]

\* dataURLtoBlob: the text between ':' and ';' becomes the type, the decoded
\* payload the content
dataURLtoBlob(dataurl) == [type |-> dataurl.mime, size |-> dataurl.bytes]

NullBlob == [type |-> <<>>, size |-> -1]
EmptySrc == [mime |-> <<>>, bytes |-> 0]

-----------------------------------------------------------------------------
(* compressImage, script.js:63-114 *)

\* String.prototype.toUpperCase on the letters a-z
UpperChar(c) ==
    CASE c = "a" -> "A" [] c = "b" -> "B" [] c = "e" -> "E" [] c = "g" -> "G"
      [] c = "i" -> "I" [] c = "j" -> "J" [] c = "l" -> "L" [] c = "m" -> "M"
      [] c = "n" -> "N" [] c = "p" -> "P" [] c = "t" -> "T" [] c = "w" -> "W"
      [] c = "x" -> "X" [] OTHER -> c

ToUpperCase(s) == [k \in 1..Len(s) |-> UpperChar(s[k])]

\* `(as ${...})` and `(Resized as ${...})`
FormatLabel(prefix, mimeType) ==
    <<"(">> \o prefix \o <<" ">> \o ToUpperCase(SplitSlash1(mimeType)) \o <<")">>

\* lines 68-71: canvas.width and canvas.height take the whole pixels of the
\* resized dimensions
CanvasSize(img) ==
    LET r == resizeDimensions(img.dim[1], img.dim[2], MAX_DIMENSION)
    IN <<FTrunc(r.width), FTrunc(r.height)>>

\* lines 74-77: what the canvas holds under the drawn image
CanvasFill(isPngConversion) == IF isPngConversion THEN "#FFFFFF" ELSE "transparent"

\* IsSearchType with every type sent to the quality search
IsSearchType_all(mimeType) == TRUE

\* line 82, negated: the types that take the quality search
IsSearchType(mimeType) == mimeType = ImageJpeg \/ mimeType = ImageWebp

\* lines 88-90.  `tested` is a ghost log of the loop's encodes, in order.
SearchInit ==
    [minQuality |-> 0, maxQuality |-> QualityOne,
     bestResult |-> [blob |-> NullBlob, src |-> EmptySrc, quality |-> 0],
     i |-> 0, tested |-> <<>>]

\* blob.size <= targetSize, with targetSize = fileSize * 0.10
MeetsBudget(size, fileSize) == size * 10 <= fileSize

\* LoopBody with the two interval updates exchanged
LoopBody_swapped(st, img, mimeType, fileSize) ==
    LET quality == (st.minQuality + st.maxQuality) \div 2
        src == ToDataURL(img, mimeType, quality)
        blob == dataURLtoBlob(src)
        log == Append(st.tested, [quality |-> quality, size |-> blob.size])
    IN IF MeetsBudget(blob.size, fileSize)
       THEN [st EXCEPT !.bestResult = [blob |-> blob, src |-> src, quality |-> quality],
                       !.maxQuality = quality,
                       !.i = @ + 1, !.tested = log]
       ELSE [st EXCEPT !.minQuality = quality,
                       !.i = @ + 1, !.tested = log]

\* LoopBody that keeps the first satisfying encode instead of overwriting it
LoopBody_firstWins(st, img, mimeType, fileSize) ==
    LET quality == (st.minQuality + st.maxQuality) \div 2
        src == ToDataURL(img, mimeType, quality)
        blob == dataURLtoBlob(src)
        log == Append(st.tested, [quality |-> quality, size |-> blob.size])
    IN IF MeetsBudget(blob.size, fileSize)
       THEN [st EXCEPT !.bestResult = IF @.blob = NullBlob
                                      THEN [blob |-> blob, src |-> src,
                                            quality |-> quality]
                                      ELSE @,
                       !.minQuality = quality,
                       !.i = @ + 1, !.tested = log]
       ELSE [st EXCEPT !.maxQuality = quality,
                       !.i = @ + 1, !.tested = log]

\* LoopBody that leaves the loop once an encode hits the budget exactly
LoopBody_earlyExit(st, img, mimeType, fileSize) ==
    LET quality == (st.minQuality + st.maxQuality) \div 2
        src == ToDataURL(img, mimeType, quality)
        blob == dataURLtoBlob(src)
        log == Append(st.tested, [quality |-> quality, size |-> blob.size])
    IN IF MeetsBudget(blob.size, fileSize)
       THEN [st EXCEPT !.bestResult = [blob |-> blob, src |-> src, quality |-> quality],
                       !.minQuality = quality,
                       !.i = IF blob.size * 10 = fileSize THEN Iterations ELSE @ + 1,
                       !.tested = log]
       ELSE [st EXCEPT !.maxQuality = quality,
                       !.i = @ + 1, !.tested = log]

\* lines 94-103: one iteration of the for loop
LoopBody(st, img, mimeType, fileSize) ==
    LET quality == (st.minQuality + st.maxQuality) \div 2
        src == ToDataURL(img, mimeType, quality)
        blob == dataURLtoBlob(src)
        log == Append(st.tested, [quality |-> quality, size |-> blob.size])
    IN IF MeetsBudget(blob.size, fileSize)
       THEN [st EXCEPT !.bestResult = [blob |-> blob, src |-> src, quality |-> quality],
                       !.minQuality = quality,
                       !.i = @ + 1, !.tested = log]
       ELSE [st EXCEPT !.maxQuality = quality,
                       !.i = @ + 1, !.tested = log]

\* SearchReturn without the fallback encode
SearchReturn_noFallback(st, img, mimeType) ==
    [blob |-> st.bestResult.blob, src |-> st.bestResult.src,
     quality |-> st.bestResult.quality,
     format |-> FormatLabel(<<"a", "s">>, mimeType)]

\* lines 106-113: the fallback encode, the format label, the return value
SearchReturn(st, img, mimeType) ==
    LET best == IF st.bestResult.blob = NullBlob
                THEN LET src == ToDataURL(img, mimeType, FallbackQuality)
                     IN [src |-> src, blob |-> dataURLtoBlob(src),
                         quality |-> FallbackQuality]
                ELSE st.bestResult
    IN [blob |-> best.blob, src |-> best.src, quality |-> best.quality,
        format |-> FormatLabel(<<"a", "s">>, mimeType)]

\* lines 83-84: one encode at the type's default settings
ResizedReturn(img, mimeType) ==
    LET size == EncodeSize(img, QualityOne)
    IN [blob |-> [type |-> mimeType, size |-> size],
        src |-> [mime |-> mimeType, bytes |-> size],
        format |-> FormatLabel(<<"R", "e", "s", "i", "z", "e", "d", " ", "a", "s">>,
                               mimeType)]

\* line 93: the for loop run to its end
RECURSIVE SearchLoop(_, _, _, _)
SearchLoop(st, img, mimeType, fileSize) ==
    IF st.i < Iterations
    THEN SearchLoop(LoopBody(st, img, mimeType, fileSize), img, mimeType, fileSize)
    ELSE st

\* the value compressImage's promise resolves to
compressImage(img, mimeType, fileSize, isPngConversion) ==
    IF ~IsSearchType(mimeType)
    THEN ResizedReturn(img, mimeType)
    ELSE SearchReturn(SearchLoop(SearchInit, img, mimeType, fileSize), img, mimeType)

-----------------------------------------------------------------------------
(* compressImage stepped, one activation in `ci` *)

MaxBase == 3

\* img.width, img.height of the decoded images
ImageDims == {<<100, 50>>, <<2094, 2094>>, <<3000, 2000>>}

Images ==
    [ok : {TRUE}, base : 1..MaxBase, slope : {0, 6, 200}, amp : {0, 2},
     dim : ImageDims]

FileSizes == {10, 15, 25, 40, 2100}

OutputTypes == {ImageJpeg, ImageWebp, ImagePng, ImageBmp}

NoResult == [none |-> TRUE]

CIIdle == [pc |-> "idle"]

CICalls ==
    [pc : {"start"}, img : Images, mimeType : OutputTypes, fileSize : FileSizes,
     isPngConversion : BOOLEAN, filled : {"unset"}, encodes : {0},
     canvas : {<<300, 150>>},
     st : {SearchInit}, result : {NoResult}]

\* lines 64-85 up to the await, or up to the loop
CIStart ==
    /\ ci.pc = "start"
    /\ ci' = [ci EXCEPT !.canvas = CanvasSize(ci.img),
                        !.filled = CanvasFill(ci.isPngConversion),
                        !.encodes = IF IsSearchType(ci.mimeType) THEN @ ELSE @ + 1,
                        !.pc = IF IsSearchType(ci.mimeType) THEN "loop" ELSE "toBlob"]
    /\ UNCHANGED batchVars

\* lines 83-84: the toBlob callback resolves the awaited promise, then
\* canvas.toDataURL(mimeType) encodes once more for the preview
CIToBlob ==
    /\ ci.pc = "toBlob"
    /\ ci' = [ci EXCEPT !.result = ResizedReturn(ci.img, ci.mimeType),
                        !.encodes = @ + 1,
                        !.pc = "returned"]
    /\ UNCHANGED batchVars

\* lines 93-104
CIIterate ==
    /\ ci.pc = "loop"
    /\ ci.st.i < Iterations
    /\ ci' = [ci EXCEPT !.st = LoopBody(ci.st, ci.img, ci.mimeType, ci.fileSize),
                        !.encodes = @ + 1]
    /\ UNCHANGED batchVars

\* lines 106-113
CIFinish ==
    /\ ci.pc = "loop"
    /\ ~(ci.st.i < Iterations)
    /\ ci' = [ci EXCEPT !.result = SearchReturn(ci.st, ci.img, ci.mimeType),
                        !.encodes = IF ci.st.bestResult.blob = NullBlob
                                    THEN @ + 1 ELSE @,
                        !.pc = "returned"]
    /\ UNCHANGED batchVars


-----------------------------------------------------------------------------
(* The page: change handler, processImage, checkCompletion *)

MaxFiles == 2
MaxBatches == 2
MaxPipelines == 3

GoodImage == [ok |-> TRUE, base |-> 1, slope |-> 6, amp |-> 0, dim |-> <<3000, 2000>>]
BrokenImage == [ok |-> FALSE, base |-> 1, slope |-> 6, amp |-> 0, dim |-> <<0, 0>>]

\* the files the user can pick: name, type, size, and what decoding it gives
PhotoPng ==
    [name |-> <<"p">> \o <<".">> \o S_png, type |-> ImagePng, size |-> 40,
     img |-> GoodImage]
AJpg ==
    [name |-> <<"a", ".", "j", "p", "g">>, type |-> ImageJpeg, size |-> 25,
     img |-> GoodImage]
IconBmp ==
    [name |-> <<"i">> \o <<".">> \o S_bmp, type |-> ImageBmp, size |-> 15,
     img |-> GoodImage]
BadJpg ==
    [name |-> <<"x", ".", "j", "p", "g">>, type |-> ImageJpeg, size |-> 25,
     img |-> BrokenImage]
NotesTxt ==
    [name |-> <<"n", ".", "t", "x", "t">>, type |-> TextPlain, size |-> 10,
     img |-> BrokenImage]

Files == {PhotoPng, AJpg, IconBmp, BadJpg, NotesTxt}

\* a FileList: distinct files, in the order the picker reports them
FileLists ==
    {fl \in UNION {[1..n -> Files] : n \in 0..MaxFiles} :
        \A j, k \in 1..Len(fl) : j # k => fl[j] # fl[k]}

\* line 19: file => file.type.startsWith('image/')
IsImageFile(file) == StartsWith(file.type, S_image \o <<"/">>)

\* line 19 without the filter: every selected file counted and launched
ImageFilesOf_all(files) == files

\* line 19: Array.from(files).filter(...)
ImageFilesOf(files) == SelectSeq(files, IsImageFile)

\* lines 168-172.  mimeType.split throws a TypeError when mimeType is undefined.
changeFileExtension(filename, mimeType) ==
    IF mimeType = Undefined
    THEN [threw |-> TRUE, value |-> <<>>]
    ELSE LET ext == SplitSlash1(mimeType)
             baseName == Substring(filename, 0, LastIndexOf(filename, "."))
         IN [threw |-> FALSE, value |-> baseName \o <<".">> \o ext]

\* line 55 reading the type off the blob, as displayPreviewCard does (line 126)
ResultMimeType_blobType(result) == result.blob.type

\* line 55: result.mimeType.  No object compressImage returns has a mimeType
\* property (lines 84, 90, 99, 109, 112).
ResultMimeType(result) == Prop(result, "mimeType")

\* lines 123-143: the card appended to previewsContainer
displayPreviewCard(p, originalFile, compressedResult) ==
    [pipeline |-> p,
     name |-> originalFile.name,
     download |-> changeFileExtension(originalFile.name, compressedResult.blob.type).value,
     format |-> compressedResult.format,
     size |-> compressedResult.blob.size]

\* lines 116-121, as the new values of (filesProcessed, downloadDisplay)
checkCompletion(processed, toProcess, zipLen, display) ==
    LET n == processed + 1
    IN [filesProcessed |-> n,
        downloadDisplay |-> IF n = toProcess /\ zipLen > 0 THEN "block" ELSE display]

\* lines 31-39: processImage up to its first await
NoCall == [none |-> TRUE]

Launch(file, b) ==
    [file |-> file, batch |-> b, pc |-> "load", compressed |-> FALSE,
     call |-> NoCall]

\* the change handler returning on a selection without images before it
\* resets anything
Change_keep(files) ==
    /\ batch < MaxBatches
    /\ Len(pipelines) + Len(ImageFilesOf(files)) <= MaxPipelines
    /\ inputFiles' = files
    /\ IF Len(files) = 0
       THEN UNCHANGED <<compressedFilesForZip, filesToProcess, filesProcessed,
                        downloadDisplay, previews, batch, pipelines>>
       ELSE LET imageFiles == ImageFilesOf(files)
            IN IF Len(imageFiles) = 0
               THEN /\ batch' = batch + 1
                    /\ UNCHANGED <<compressedFilesForZip, filesToProcess,
                                   filesProcessed, downloadDisplay, previews,
                                   pipelines>>
               ELSE /\ previews' = <<>>
                    /\ compressedFilesForZip' = <<>>
                    /\ downloadDisplay' = "none"
                    /\ filesToProcess' = Len(imageFiles)
                    /\ filesProcessed' = 0
                    /\ batch' = batch + 1
                    /\ pipelines' = pipelines \o
                           [k \in 1..Len(imageFiles) |-> Launch(imageFiles[k], batch + 1)]
    /\ UNCHANGED ci

\* lines 10-28
Change(files) ==
    /\ batch < MaxBatches
    /\ Len(pipelines) + Len(ImageFilesOf(files)) <= MaxPipelines
    /\ inputFiles' = files
    /\ IF Len(files) = 0
       THEN UNCHANGED <<compressedFilesForZip, filesToProcess, filesProcessed,
                        downloadDisplay, previews, batch, pipelines>>
       ELSE LET imageFiles == ImageFilesOf(files)
            IN /\ previews' = <<>>
               /\ compressedFilesForZip' = <<>>
               /\ downloadDisplay' = "none"
               /\ filesToProcess' = Len(imageFiles)
               /\ filesProcessed' = 0
               /\ batch' = batch + 1
               /\ pipelines' = pipelines \o
                      [k \in 1..Len(imageFiles) |-> Launch(imageFiles[k], batch + 1)]
    /\ UNCHANGED ci

\* lines 53-59: the rest of processImage once compressImage has returned
Continue(p, call, result) ==
    LET file == pipelines[p].file
        card == displayPreviewCard(p, file, result)
        name == changeFileExtension(file.name, ResultMimeType(result))
        zip == Append(compressedFilesForZip,
                      [name |-> name.value, blob |-> result.blob, pipeline |-> p])
        done == checkCompletion(filesProcessed, filesToProcess, Len(zip),
                                downloadDisplay)
    IN /\ previews' = Append(previews, card)
       /\ IF name.threw
          THEN /\ pipelines' = [pipelines EXCEPT ![p].pc = "rejected",
                                                 ![p].compressed = TRUE,
                                                 ![p].call = call]
               /\ UNCHANGED <<compressedFilesForZip, filesProcessed, downloadDisplay>>
          ELSE /\ pipelines' = [pipelines EXCEPT ![p].pc = "resolved",
                                                 ![p].compressed = TRUE,
                                                 ![p].call = call]
               /\ compressedFilesForZip' = zip
               /\ filesProcessed' = done.filesProcessed
               /\ downloadDisplay' = done.downloadDisplay
       /\ UNCHANGED <<filesToProcess, inputFiles, batch, ci>>

\* processImage passing every type on in its native format
TargetType_native(file) == file.type

\* lines 46-51: the output type
TargetType(file) == IF file.type = ImagePng THEN ImageJpeg ELSE file.type

\* lines 46-51: the isPngConversion argument
IsPngConversion(file) == file.type = ImagePng

\* line 41: targetSize = file.size * 0.10, in tenths of a byte
TargetSize(file) == file.size

\* lines 41-51: the arguments of the compressImage call, and the canvas
\* background they lead to (lines 74-77)
CallOf(file) ==
    [mimeType |-> TargetType(file), targetSize |-> TargetSize(file),
     isPngConversion |-> IsPngConversion(file),
     fill |-> CanvasFill(IsPngConversion(file))]

CompressCall(file, call) ==
    compressImage(file.img, call.mimeType, call.targetSize, call.isPngConversion)

\* line 37: img.onload.  The search path of compressImage has no await of its
\* own, so processImage runs on to its end in the same turn of the event loop;
\* the other path suspends at canvas.toBlob (line 83).
ImageLoaded(p) ==
    /\ pipelines[p].pc = "load"
    /\ pipelines[p].file.img.ok
    /\ LET file == pipelines[p].file
           call == CallOf(file)
       IN IF IsSearchType(call.mimeType)
          THEN Continue(p, call, CompressCall(file, call))
          ELSE /\ pipelines' = [pipelines EXCEPT ![p].pc = "toBlob",
                                                 ![p].call = call]
               /\ UNCHANGED <<compressedFilesForZip, filesToProcess, filesProcessed,
                              downloadDisplay, previews, inputFiles, batch, ci>>

\* line 38: img.onerror rejects the awaited promise, and processImage with it
ImageError(p) ==
    /\ pipelines[p].pc = "load"
    /\ ~pipelines[p].file.img.ok
    /\ pipelines' = [pipelines EXCEPT ![p].pc = "rejected"]
    /\ UNCHANGED <<compressedFilesForZip, filesToProcess, filesProcessed,
                   downloadDisplay, previews, inputFiles, batch, ci>>

\* lines 83-84 then 53-59: the toBlob callback
BlobReady(p) ==
    /\ pipelines[p].pc = "toBlob"
    /\ LET file == pipelines[p].file
           call == pipelines[p].call
       IN Continue(p, call, CompressCall(file, call))

-----------------------------------------------------------------------------
(* Specifications *)

\* lines 6-8; the button starts hidden
BatchInit ==
    /\ compressedFilesForZip = <<>>
    /\ filesToProcess = 0
    /\ filesProcessed = 0
    /\ downloadDisplay = "none"
    /\ previews = <<>>
    /\ inputFiles = <<>>
    /\ batch = 0
    /\ pipelines = <<>>

Init ==
    /\ BatchInit
    /\ ci = CIIdle

Next ==
    \/ \E files \in FileLists : Change(files)
    \/ \E p \in 1..Len(pipelines) : ImageLoaded(p)
    \/ \E p \in 1..Len(pipelines) : ImageError(p)
    \/ \E p \in 1..Len(pipelines) : BlobReady(p)

Spec == Init /\ [][Next]_vars

SearchInitial ==
    /\ BatchInit
    /\ ci \in CICalls

SearchNext ==
    \/ CIStart
    \/ CIToBlob
    \/ CIIterate
    \/ CIFinish

SpecSearch == SearchInitial /\ [][SearchNext]_vars

\* resizeDimensions called on its own, the activation kept in `ci`
MaxDim == 30
MaxMax == 8

ResizeDims == (1..MaxDim) \cup {187, 1919, 1920, 1921, 2094, 3000}
ResizeMaxes == (1..MaxMax) \cup {1920}

ResizeCalls ==
    [pc : {"resize"}, width : ResizeDims, height : ResizeDims, max : ResizeMaxes,
     out : {NoResult}]

Resize ==
    /\ ci.pc = "resize"
    /\ ci' = [ci EXCEPT !.out = resizeDimensions(ci.width, ci.height, ci.max),
                        !.pc = "resized"]
    /\ UNCHANGED batchVars

ResizeInitial ==
    /\ BatchInit
    /\ ci \in ResizeCalls

SpecResize == ResizeInitial /\ [][Resize]_vars

-----------------------------------------------------------------------------
(* Claims about compressImage, checked under SpecSearch *)

SearchReturned == ci.pc = "returned" /\ IsSearchType(ci.mimeType)

\* some quality in [from/640, 1] encodes within the budget
ReachableFrom(from) ==
    \E q \in from..QualityOne : MeetsBudget(EncodeSize(ci.img, q), ci.fileSize)

LowestTested == QualityOne \div 128

\* the loop's encodes that met the budget
TestedOk == {k \in 1..Len(ci.st.tested) : MeetsBudget(ci.st.tested[k].size, ci.fileSize)}

\* C1 as stated: with a monotone encoder, whenever some quality in [0,1] meets
\* the budget, the blob compressImage returns is within the budget.
C1_AnyReachableQualityMeetsBudget ==
    (SearchReturned /\ Monotone(ci.img) /\ ReachableFrom(0))
        => MeetsBudget(ci.result.blob.size, ci.fileSize)

\* C1 amended: with a monotone encoder, whenever some quality in [1/128, 1]
\* meets the budget, the blob compressImage returns is within the budget.
C1_ReachableAtResolutionMeetsBudget ==
    (SearchReturned /\ Monotone(ci.img) /\ ReachableFrom(LowestTested))
        => MeetsBudget(ci.result.blob.size, ci.fileSize)

\* the budget is met at 1/128 but not at the fallback quality 0.1, and the
\* search has returned
C1_Witness ==
    /\ SearchReturned
    /\ Monotone(ci.img)
    /\ ReachableFrom(LowestTested)
    /\ ~MeetsBudget(EncodeSize(ci.img, FallbackQuality), ci.fileSize)
    /\ ci.result.quality = LowestTested

\* C2: when some tested quality met the budget, the returned quality is the
\* greatest tested quality that met it, and the returned blob and data URL are
\* the encode made at that quality.
C2_HighestSatisfyingTested ==
    (SearchReturned /\ TestedOk # {}) =>
        /\ \E k \in TestedOk : ci.result.quality = ci.st.tested[k].quality
        /\ \A k \in TestedOk : ci.st.tested[k].quality <= ci.result.quality
        /\ ci.result.src = ToDataURL(ci.img, ci.mimeType, ci.result.quality)
        /\ ci.result.blob = dataURLtoBlob(ci.result.src)

\* a non-monotone encoder, two satisfying encodes and a failing one between
\* them in time
C2_Witness ==
    /\ SearchReturned
    /\ ~Monotone(ci.img)
    /\ \E j, k, l \in 1..Len(ci.st.tested) :
          /\ j < k /\ k < l
          /\ j \in TestedOk /\ k \notin TestedOk /\ l \in TestedOk
          /\ ci.result.quality = ci.st.tested[l].quality

-----------------------------------------------------------------------------
(* Claims about the batch, checked under Spec *)

Pipes == 1..Len(pipelines)

Current(p) == pipelines[p].batch = batch
Stale(p) == pipelines[p].batch < batch
InFlight(p) == pipelines[p].pc \in {"load", "toBlob"}
Finished(p) == pipelines[p].pc \in {"resolved", "rejected"}
\* the pipeline got its compressed result and rendered its preview card
Compressed(p) == pipelines[p].compressed
\* the pipeline ended at the image load error
FailedToLoad(p) == pipelines[p].pc = "rejected" /\ ~pipelines[p].compressed

EntriesOf(p) == {k \in 1..Len(compressedFilesForZip) : compressedFilesForZip[k].pipeline = p}
CardsOf(p) == {k \in 1..Len(previews) : previews[k].pipeline = p}

\* C3 as stated, in the form a finite run decides: after one selection, once
\* every launched pipeline has finished and at least one of them compressed
\* its image, the download-all button is shown.
C3_ExportShownWhenBatchDone ==
    (/\ batch = 1
     /\ \A p \in Pipes : Finished(p)
     /\ \E p \in Pipes : Compressed(p))
        => downloadDisplay = "block"

\* C4: the download-all button is hidden while a pipeline of the most recent
\* selection is in flight, and it is shown only with a non-empty archive list.
C4_ExportOnlyWhenBatchDone ==
    /\ \A p \in Pipes : (Current(p) /\ InFlight(p)) => downloadDisplay = "none"
    /\ downloadDisplay = "block" =>
          /\ compressedFilesForZip # <<>>
          /\ \A p \in Pipes : Current(p) => Finished(p)

\* overlapping selections: as many pipelines of the first selection finished
\* after the reset as the second selection expects, while a pipeline of the
\* second selection is still suspended
C4_Witness ==
    /\ batch = 2
    /\ \E p \in Pipes : Current(p) /\ pipelines[p].pc = "toBlob"
    /\ Cardinality({p \in Pipes : Stale(p) /\ Compressed(p) /\ CardsOf(p) # {}})
          >= filesToProcess

\* the button is never shown: no run reaches checkCompletion
ButtonNeverShown == downloadDisplay = "none" /\ filesProcessed = 0

\* C5: filesProcessed never exceeds filesToProcess.
C5_ProcessedAtMostToProcess == filesProcessed <= filesToProcess

\* pipelines of the first selection finished after the second selection reset
\* the counters, and there are more of them than the second selection expects
C5_Witness ==
    /\ batch = 2
    /\ filesToProcess = 1
    /\ Cardinality({p \in Pipes : Stale(p) /\ Finished(p) /\ CardsOf(p) # {}}) = 2

\* C6 as stated: a step in which a pipeline finishes adds one to filesProcessed;
\* it appends one entry to compressedFilesForZip when the pipeline compressed
\* its image and none when it failed.
C6_EveryFinishCounted ==
    [][\A p \in Pipes :
          (InFlight(p) /\ pipelines'[p].pc \in {"resolved", "rejected"}) =>
              /\ filesProcessed' = filesProcessed + 1
              /\ IF pipelines'[p].compressed
                 THEN Len(compressedFilesForZip') = Len(compressedFilesForZip) + 1
                 ELSE compressedFilesForZip' = compressedFilesForZip]_vars

\* C7 as stated: a pipeline that failed at the image load leaves filesToProcess
\* at the number of images selected, and every sibling of its batch that
\* compressed its image has its entry in compressedFilesForZip.
C7_FailureLeavesSiblingsOutcome ==
    \A p, q \in Pipes :
        (Current(p) /\ Current(q) /\ FailedToLoad(p) /\ Finished(q) /\ Compressed(q))
            => /\ filesToProcess = Cardinality({r \in Pipes : Current(r)})
               /\ EntriesOf(q) # {}

\* C8: the step handling a selection that holds an image file leaves the
\* archive list empty, filesProcessed at 0, the button hidden, filesToProcess at
\* the number of selected files whose type starts with image/, and launches one
\* pipeline for each of those files and for no other.
C8_ResetOnSelection ==
    [][LET files == inputFiles'
           images == {k \in 1..Len(files) :
                         StartsWith(files[k].type, S_image \o <<"/">>)}
       IN (batch' # batch /\ images # {}) =>
             /\ compressedFilesForZip' = <<>>
             /\ filesProcessed' = 0
             /\ downloadDisplay' = "none"
             /\ previews' = <<>>
             /\ filesToProcess' = Cardinality(images)
             /\ Len(pipelines') = Len(pipelines) + Cardinality(images)
             /\ \A n \in (Len(pipelines) + 1)..Len(pipelines') :
                   /\ pipelines'[n].pc = "load"
                   /\ \E k \in images : pipelines'[n].file = files[k]]_vars

\* just after a second selection mixing an image with a non-image file, made
\* when a card of the first selection was on the page
C8_Witness ==
    /\ batch = 2
    /\ Len(inputFiles) = 2
    /\ filesToProcess = 1
    /\ previews = <<>>
    /\ \A p \in Pipes : Current(p) => pipelines[p].pc = "load"
    /\ \E p \in Pipes : Stale(p) /\ Compressed(p)

\* C9: no entry of compressedFilesForZip comes from a pipeline launched by an
\* earlier selection, whenever that pipeline finishes.
C9_NoStaleOutcome ==
    \A p \in Pipes : (Stale(p) /\ Finished(p)) => EntriesOf(p) = {}

\* a pipeline of the first selection compressed its image and rendered its
\* card after the second selection had reset the page
C9_Witness ==
    /\ batch = 2
    /\ \E p \in Pipes : Stale(p) /\ Compressed(p) /\ CardsOf(p) # {}

\* C10 as stated: every pipeline of the current selection that compressed its
\* image and rendered its card has exactly one entry in compressedFilesForZip.
C10_OneEntryPerCompressedImage ==
    \A p \in Pipes :
        (Current(p) /\ Compressed(p) /\ CardsOf(p) # {})
            => Cardinality(EntriesOf(p)) = 1

\* the archive name the claim gives each selectable image: its base name, a
\* dot, and the subtype of the format it is encoded in
ExpectedEntryName(file) ==
    CASE file = PhotoPng -> <<"p", ".", "j", "p", "e", "g">>
      [] file = AJpg -> <<"a", ".", "j", "p", "e", "g">>
      [] file = IconBmp -> <<"i", ".", "b", "m", "p">>
      [] OTHER -> <<>>

\* C11 as stated: the entry recorded for an image of the current selection
\* that was compressed is named <base name>.<subtype of the encoded format>
\* (p.png forced to JPEG is recorded as p.jpeg).
C11_EntryNamedBaseDotSubtype ==
    \A p \in Pipes :
        (Current(p) /\ Compressed(p)) =>
            \E k \in EntriesOf(p) :
                compressedFilesForZip[k].name = ExpectedEntryName(pipelines[p].file)

\* C12: every compressImage call made by processImage asks for image/jpeg over
\* a white-filled canvas when the file is image/png, and for the file's own
\* type over an unfilled canvas otherwise, with a target of 10% of file.size
\* (targetSize is in tenths of a byte); the card shows the format label of
\* that type.
C12_FormatPolicy ==
    \A p \in Pipes :
        pipelines[p].call # NoCall =>
            LET file == pipelines[p].file
                call == pipelines[p].call
            IN /\ call.targetSize = file.size
               /\ IF file.type = <<"i", "m", "a", "g", "e", "/", "p", "n", "g">>
                  THEN /\ call.mimeType = <<"i", "m", "a", "g", "e", "/", "j", "p", "e", "g">>
                       /\ call.isPngConversion
                       /\ call.fill = "#FFFFFF"
                       /\ \A k \in CardsOf(p) :
                             previews[k].format = <<"(", "a", "s", " ", "J", "P", "E", "G", ")">>
                  ELSE /\ call.mimeType = file.type
                       /\ ~call.isPngConversion
                       /\ call.fill = "transparent"

\* a PNG and a BMP have both been through compressImage and show their cards
C12_Witness ==
    \E p, q \in Pipes :
        /\ pipelines[p].file = PhotoPng /\ Compressed(p) /\ CardsOf(p) # {}
        /\ pipelines[q].file = IconBmp /\ Compressed(q) /\ CardsOf(q) # {}

-----------------------------------------------------------------------------
(* Claims about resizeDimensions, checked under SpecResize *)

\* exact arithmetic on values m * 2^e
DMulInt(d, n) == [m |-> BNMulSmall(d.m, n), e |-> d.e]
DShl(d, k) == [m |-> d.m, e |-> d.e + k]
DAlign(d, e0) == BNShl(d.m, d.e - e0)
DMinExp(c, d) == IF c.e < d.e THEN c.e ELSE d.e
DCmp(c, d) == BNCmp(DAlign(c, DMinExp(c, d)), DAlign(d, DMinExp(c, d)))
DDist(c, d) ==
    [m |-> BNDist(DAlign(c, DMinExp(c, d)), DAlign(d, DMinExp(c, d))),
     e |-> DMinExp(c, d)]

Resized == ci.pc = "resized"
Scaled == ci.width > ci.max \/ ci.height > ci.max

\* outWidth * height and width * outHeight, exactly
CrossLeft == DMulInt(ci.out.width, ci.height)
CrossRight == DMulInt(ci.out.height, ci.width)

\* C13 as stated: both returned dimensions are <= max, and inputs that are
\* both <= max come back unchanged.
C13_ResizedWithinMax ==
    Resized =>
        /\ FCmpInt(ci.out.width, ci.max) <= 0
        /\ FCmpInt(ci.out.height, ci.max) <= 0
        /\ ~Scaled => /\ FCmpInt(ci.out.width, ci.width) = 0
                      /\ FCmpInt(ci.out.height, ci.height) = 0

\* C14 as stated: outWidth * height = width * outHeight exactly.
C14_AspectRatioExact ==
    Resized => DCmp(CrossLeft, CrossRight) = 0

\* C14 amended: outWidth * height and width * outHeight differ by at most
\* 2^-51 of their size, and not at all when nothing is scaled; when an input
\* exceeds max the larger input dimension comes back as max itself.
C14_AspectRatioWithinRounding ==
    Resized =>
        /\ DCmp(DShl(DDist(CrossLeft, CrossRight), 51), CrossRight) <= 0
        /\ ~Scaled => DCmp(CrossLeft, CrossRight) = 0
        /\ (Scaled /\ ci.width > ci.height) => FCmpInt(ci.out.width, ci.max) = 0
        /\ (Scaled /\ ci.width <= ci.height) => FCmpInt(ci.out.height, ci.max) = 0

\* a 3000 x 1919 image scaled to 1920: the height is rounded, the cross
\* products differ
C14_Witness ==
    /\ Resized
    /\ ci.width = 3000 /\ ci.height = 1919 /\ ci.max = 1920
    /\ DCmp(CrossLeft, CrossRight) # 0
    /\ FTrunc(ci.out.height) = 1228

-----------------------------------------------------------------------------
(* Claims about the encodes compressImage makes, checked under SpecSearch *)

FallbackSrc == ToDataURL(ci.img, ci.mimeType, FallbackQuality)

\* C15: when no quality in [0,1] meets the budget, the search path returns the
\* encode made at quality 0.1 after the loop: a blob that is not null, reported
\* quality 0.1, one encode more than the loop's.
C15_FallbackWhenUnreachable ==
    (SearchReturned /\ ~ReachableFrom(0)) =>
        /\ ci.result.quality = FallbackQuality
        /\ ci.result.src = FallbackSrc
        /\ ci.result.blob = dataURLtoBlob(FallbackSrc)
        /\ ci.result.blob # NullBlob
        /\ ci.encodes = Iterations + 1

C15_Witness ==
    /\ SearchReturned
    /\ ~ReachableFrom(0)
    /\ ci.encodes = Iterations + 1
    /\ ci.result.blob.size = EncodeSize(ci.img, FallbackQuality)
    /\ ~MeetsBudget(ci.result.blob.size, ci.fileSize)

ResizedReturned ==
    ci.pc = "returned" /\ ci.mimeType # ImageJpeg /\ ci.mimeType # ImageWebp

\* the blob and data URL a default-settings encode produces
DefaultBlob == [type |-> ci.mimeType, size |-> EncodeSize(ci.img, QualityOne)]
DefaultSrc == [mime |-> ci.mimeType, bytes |-> EncodeSize(ci.img, QualityOne)]

\* C16 as stated: for an output type other than jpeg and webp compressImage
\* makes exactly one encode call, runs no search and returns that encode.
C16_OneEncodeNoSearch ==
    ResizedReturned =>
        /\ ci.encodes = 1
        /\ ci.st = SearchInit
        /\ ci.result.blob = DefaultBlob

\* C16 amended: for an output type other than jpeg and webp compressImage
\* makes exactly two encode calls at default settings (toBlob for the blob,
\* toDataURL for the preview), runs no search and returns them whatever the
\* budget.
C16_TwoEncodesNoSearch ==
    ResizedReturned =>
        /\ ci.encodes = 2
        /\ ci.st = SearchInit
        /\ ci.result.blob = DefaultBlob
        /\ ci.result.src = DefaultSrc

\* a png returned over its budget
C16_Witness ==
    /\ ResizedReturned
    /\ ci.mimeType = ImagePng
    /\ ci.encodes = 2
    /\ ~MeetsBudget(ci.result.blob.size, ci.fileSize)

RECURSIVE Pow2(_)
Pow2(n) == IF n = 0 THEN 1 ELSE 2 * Pow2(n - 1)

\* C19: on the search path the loop makes one encode per iteration and stops
\* after exactly 7 whatever the encodes' sizes; after iteration i,
\* minQuality <= maxQuality and maxQuality - minQuality = 1/2^i (1/128 at the
\* end); at most one encode follows the loop.
C19_SevenIterations ==
    (IsSearchType(ci.mimeType) /\ ci.pc \in {"loop", "returned"}) =>
        /\ ci.st.i <= Iterations
        /\ Len(ci.st.tested) = ci.st.i
        /\ ci.st.minQuality <= ci.st.maxQuality
        /\ (ci.st.maxQuality - ci.st.minQuality) * Pow2(ci.st.i) = QualityOne
        /\ ci.pc = "loop" => ci.encodes = ci.st.i
        /\ ci.pc = "returned" =>
              /\ ci.st.i = Iterations
              /\ ci.st.maxQuality - ci.st.minQuality = QualityOne \div 128
              /\ ci.encodes \in {Iterations, Iterations + 1}

\* the first encode hit the budget exactly and six more followed
C19_Witness ==
    /\ SearchReturned
    /\ ci.st.tested[1].size * 10 = ci.fileSize
    /\ Len(ci.st.tested) = Iterations
    /\ ci.encodes = Iterations

-----------------------------------------------------------------------------
(* Claims about the order of outcomes and about selections without images,
   checked under Spec *)

CurrentCompressed(p) == Current(p) /\ Compressed(p)

\* the pipelines of the current selection that compressed their image, in the
\* order the selection listed their files
SubmissionOrder == SelectSeq([p \in Pipes |-> p], CurrentCompressed)

\* the pipelines of the current selection behind the entries of
\* compressedFilesForZip, in list order
OutcomeOrder ==
    SelectSeq([k \in 1..Len(compressedFilesForZip) |-> compressedFilesForZip[k].pipeline],
              Current)

\* C17 as stated: once every pipeline of the current selection has finished,
\* compressedFilesForZip lists the compressed images in the order the
\* selection submitted them.
C17_OutcomesInSubmissionOrder ==
    (batch > 0 /\ \A p \in Pipes : Current(p) => Finished(p))
        => OutcomeOrder = SubmissionOrder

NoImageSelected ==
    /\ batch' # batch
    /\ \A k \in 1..Len(inputFiles') :
          ~StartsWith(inputFiles'[k].type, S_image \o <<"/">>)

\* C18 as stated: the step handling a selection that holds files but no image
\* file leaves the cards, the archive list, the counters and the button as
\* they were.
C18_NoImageSelectionChangesNothing ==
    [][NoImageSelected =>
          UNCHANGED <<previews, compressedFilesForZip, filesToProcess,
                      filesProcessed, downloadDisplay>>]_vars

\* C18 amended: the step handling a selection that holds files but no image
\* file removes every card, empties the archive list, hides the button, sets
\* both counters to 0 and launches no pipeline.
C18_NoImageSelectionResets ==
    [][NoImageSelected =>
          /\ previews' = <<>>
          /\ compressedFilesForZip' = <<>>
          /\ downloadDisplay' = "none"
          /\ filesToProcess' = 0
          /\ filesProcessed' = 0
          /\ pipelines' = pipelines]_vars

\* just after a second selection holding only a text file, made when a card
\* of the first selection was on the page
C18_Witness ==
    /\ batch = 2
    /\ inputFiles = <<NotesTxt>>
    /\ previews = <<>>
    /\ filesToProcess = 0
    /\ \E p \in Pipes : Stale(p) /\ Compressed(p)

====
